---- MODULE Spec2Model ----
(***************************************************************************)
(* Model of the realtime error-analysis demo:                              *)
(*   src/lib/realtime.ts              RealtimeEventEmitter (the EventBus)  *)
(*   src/app/api/events/route.ts      the event stream endpoint (SSE)      *)
(*   src/app/api/worker/route.ts      the submit pipeline and the status   *)
(*   src/app/api/memory/route.ts      the memory endpoints                 *)
(*   src/lib/error-analysis-agent.ts  the analysis agent                   *)
(*   src/unnamed/part_001             the Agent base class                 *)
(*                                                                         *)
(* Text is modelled as a sequence of one-character strings, so that        *)
(* trim, toLowerCase, includes and substring are computed, not assumed.    *)
(* Timestamps (new Date()) are left out: no modelled operation reads them. *)
(***************************************************************************)
EXTENDS Integers, Sequences, FiniteSets, TLC

\* ------------------------------------------------------------------ bounds

\* Submissions (POST /api/worker) the clients make in one behaviour.
MaxSubmissions == 2
\* Connections the clients open on GET /api/events in one behaviour.
MaxConns == 2
\* Keep-alive ticks of the 30 s interval timers in one behaviour.
MaxTicks == 1
\* Connections opened while submissions run (Spec).
MaxPipelineConns == 1
\* Calls of realtimeEvents.emit by an arbitrary producer in one behaviour of SpecBus.
MaxEmits == 2
\* Calls of the memory and status endpoints in one behaviour of SpecMemory.
MaxCalls == 2
MaxTokens == 3       \* calls of subscribe in SpecTokens
MaxInvokes == 2      \* invocations of one token in SpecTokens
PriorAnalyses == 20  \* errors analysed before the ones SpecWarmAgent follows
PriorCommits == 10   \* submissions processed before the ones SpecWarm follows

\* ------------------------------------------------------- program constants

WorkflowCap == 10
LastProcessedLen == 100
ErrorRecordLen == 500
RecentErrorsCap == 20
SuggestionCap == 5
RuleConfidence == 60
AiDefaultConfidence == 50

Subs == 1..MaxSubmissions
Conns == 1..MaxConns

\* ------------------------------------------------------------- text helpers

\* null / undefined is the empty option, a value v is <<v>>.
Null == <<>>
Some(v) == <<v>>

Min(S) == CHOOSE x \in S : \A y \in S : x <= y

\* JS whitespace as String.prototype.trim sees it (the characters used here).
IsSpace(ch) == ch \in {" ", "\t", "\n"}

RECURSIVE TrimStart(_)
TrimStart(s) == IF s # <<>> /\ IsSpace(Head(s)) THEN TrimStart(Tail(s)) ELSE s

RECURSIVE TrimEnd(_)
TrimEnd(s) ==
  IF s # <<>> /\ IsSpace(s[Len(s)]) THEN TrimEnd(SubSeq(s, 1, Len(s) - 1)) ELSE s

\* String.prototype.trim
Trim(s) == TrimEnd(TrimStart(s))

\* String.prototype.toLowerCase, per character.
LowerChar(ch) ==
  CASE ch = "A" -> "a" [] ch = "B" -> "b" [] ch = "C" -> "c" [] ch = "D" -> "d"
    [] ch = "E" -> "e" [] ch = "F" -> "f" [] ch = "G" -> "g" [] ch = "H" -> "h"
    [] ch = "I" -> "i" [] ch = "J" -> "j" [] ch = "K" -> "k" [] ch = "L" -> "l"
    [] ch = "M" -> "m" [] ch = "N" -> "n" [] ch = "O" -> "o" [] ch = "P" -> "p"
    [] ch = "Q" -> "q" [] ch = "R" -> "r" [] ch = "S" -> "s" [] ch = "T" -> "t"
    [] ch = "U" -> "u" [] ch = "V" -> "v" [] ch = "W" -> "w" [] ch = "X" -> "x"
    [] ch = "Y" -> "y" [] ch = "Z" -> "z"
    [] OTHER -> ch

ToLowerCase(s) == [i \in 1..Len(s) |-> LowerChar(s[i])]

\* String.prototype.includes
Includes(s, sub) ==
  \E i \in 0..(Len(s) - Len(sub)) : SubSeq(s, i + 1, i + Len(sub)) = sub

\* String.prototype.substring(0, n) and Array.prototype.slice(0, n)
Take(s, n) == SubSeq(s, 1, IF Len(s) < n THEN Len(s) ELSE n)

\* The element of a one-element set.  In Only({e : x \in {v}}) the value v is
\* computed once and named x in e, as a `const x = v` of the code is.
Only(S) == CHOOSE r \in S : TRUE

\* Keywords and category names as text.
K_critical == <<"c","r","i","t","i","c","a","l">>
K_fatal == <<"f","a","t","a","l">>
K_error == <<"e","r","r","o","r">>
K_exception == <<"e","x","c","e","p","t","i","o","n">>
K_warning == <<"w","a","r","n","i","n","g">>
K_syntax == <<"s","y","n","t","a","x">>
K_type == <<"t","y","p","e">>
K_reference == <<"r","e","f","e","r","e","n","c","e">>
K_network == <<"n","e","t","w","o","r","k">>
K_timeout == <<"t","i","m","e","o","u","t">>
K_auth == <<"a","u","t","h">>
K_permission == <<"p","e","r","m","i","s","s","i","o","n">>
K_database == <<"d","a","t","a","b","a","s","e">>
K_sql == <<"s","q","l">>

T_Syntax == <<"S","y","n","t","a","x">>
T_Type == <<"T","y","p","e">>
T_Reference == <<"R","e","f","e","r","e","n","c","e">>
T_Network == <<"N","e","t","w","o","r","k">>
T_Timeout == <<"T","i","m","e","o","u","t">>
T_Security == <<"S","e","c","u","r","i","t","y">>
T_Database == <<"D","a","t","a","b","a","s","e">>
T_General == <<"G","e","n","e","r","a","l">>
T_ErrorSuffix == <<" ","E","r","r","o","r">>
T_Unknown == <<"U","n","k","n","o","w","n">>

\* Error texts handed to the agent: the example of the documentation and
\* texts with the keywords of every category and severity, alone and combined.
X_Example ==
  <<"T","y","p","e","E","r","r","o","r",":"," ","C","a","n","n","o","t"," ","r","e","a","d"," ","p","r","o","p","e","r","t","y"," ","'","x","'"," ","o","f"," ","u","n","d","e","f","i","n","e","d">>
X_SyntaxType == <<"S","y","n","t","a","x","E","r","r","o","r",":"," ","t","y","p","e">>
X_Reference == <<"R","e","f","e","r","e","n","c","e","E","r","r","o","r",":"," ","y">>
X_Network == <<"n","e","t","w","o","r","k"," ","t","i","m","e","o","u","t">>
X_Timeout == <<"T","i","m","e","o","u","t"," ","w","a","r","n","i","n","g">>
X_Auth == <<"a","u","t","h">>
X_Permission == <<"P","e","r","m","i","s","s","i","o","n"," ","d","e","n","i","e","d"," ","e","x","c","e","p","t","i","o","n">>
X_Database == <<"d","a","t","a","b","a","s","e"," ","F","A","T","A","L"," ","e","r","r","o","r">>
X_Sql == <<"S","Q","L"," ","c","r","i","t","i","c","a","l">>
X_General == <<"d","i","s","k"," ","f","u","l","l">>

ClassifyTexts ==
  {X_Example, X_SyntaxType, X_Reference, X_Network, X_Timeout,
   X_Auth, X_Permission, X_Database, X_Sql, X_General}

\* ------------------------------------------------------------ the requests

\* The value of the `error` field of a request body: undefined (the field is
\* missing), a number, or a string.
Undefined == [tag |-> "undefined", chars |-> <<>>]
Number42 == [tag |-> "number", chars |-> <<>>]
Str(s) == [tag |-> "string", chars |-> s]

E_Empty == Str(<<>>)
E_Blank == Str(<<" ", "\n">>)
E_TypeError == Str(<<"T","y","p","e","E","r","r","o","r",":"," ","x">>)
E_Fatal == Str(<<" ","F","A","T","A","L"," ","s","q","l">>)

\* The error values the clients submit.
ErrorInputs == {Undefined, E_Empty, E_Blank, E_TypeError, E_Fatal, Number42}

\* Bodies for which request.json() throws carry malformed = TRUE.
Requests ==
  [malformed : {FALSE}, error : ErrorInputs] \cup
  {[malformed |-> TRUE, error |-> Undefined]}

\* `!error` for the values above: undefined and "" are falsy, 42 is truthy.
Falsy(e) == e.tag = "undefined" \/ (e.tag = "string" /\ e.chars = <<>>)

\* ------------------------------------------------------ the analysis agent

\* A JS object used as a map: a function on the keys that were set.
EmptyMap == [k \in {} |-> 0]

\* m[k] = (m[k] || 0) + 1
Increment(m, k) ==
  [x \in (DOMAIN m) \cup {k} |->
     IF x = k THEN (IF k \in DOMAIN m THEN m[k] ELSE 0) + 1 ELSE m[x]]

\* detectSeverity testing for error and exception before critical and fatal.
detectSeverityErrorFirst(error) ==
  LET lowerError == ToLowerCase(error) IN
  IF Includes(lowerError, K_error) \/ Includes(lowerError, K_exception) THEN "high"
  ELSE IF Includes(lowerError, K_critical) \/ Includes(lowerError, K_fatal) THEN "critical"
  ELSE IF Includes(lowerError, K_warning) THEN "medium"
  ELSE "low"

detectSeverity(error) ==
  Only({IF Includes(lowerError, K_critical) \/ Includes(lowerError, K_fatal) THEN "critical"
        ELSE IF Includes(lowerError, K_error) \/ Includes(lowerError, K_exception) THEN "high"
        ELSE IF Includes(lowerError, K_warning) THEN "medium"
        ELSE "low" :
        lowerError \in {ToLowerCase(error)}})

categorizeError(error) ==
  Only({
  IF Includes(lowerError, K_syntax) THEN T_Syntax
  ELSE IF Includes(lowerError, K_type) THEN T_Type
  ELSE IF Includes(lowerError, K_reference) THEN T_Reference
  ELSE IF Includes(lowerError, K_network) THEN T_Network
  ELSE IF Includes(lowerError, K_timeout) THEN T_Timeout
  ELSE IF Includes(lowerError, K_auth) \/ Includes(lowerError, K_permission) THEN T_Security
  ELSE IF Includes(lowerError, K_database) \/ Includes(lowerError, K_sql) THEN T_Database
  ELSE T_General :
  lowerError \in {ToLowerCase(error)}})

performRuleBasedAnalysis(errorMessage, category, severity) ==
  LET base == <<"Review error logs for additional context", "Check recent code changes">>
      suggestions ==
        IF category = T_Syntax THEN
          base \o <<"Validate code syntax", "Check for missing brackets or semicolons">>
        ELSE IF category = T_Network THEN
          base \o <<"Verify network connectivity", "Check API endpoints",
                    "Review timeout settings">>
        ELSE IF category = T_Type THEN
          base \o <<"Check type definitions", "Validate input data types">>
        ELSE IF category = T_Database THEN
          base \o <<"Check database connection", "Verify query syntax",
                    "Review schema changes">>
        ELSE base
  IN [type |-> category \o T_ErrorSuffix,
      category |-> category,
      rootCause |-> <<"Detected ">> \o ToLowerCase(category) \o <<" issue in the system">>,
      suggestions |-> Take(suggestions, SuggestionCap),
      relatedPatterns |-> <<category>>,
      confidence |-> RuleConfidence]

\* The state the ErrorAnalysisAgent constructor passes to the Agent base class.
InitAgentState ==
  [totalAnalyzed |-> 0, recentErrors |-> <<>>, errorPatterns |-> EmptyMap,
   agentStatus |-> "idle"]

\* Agent.setState: this.state = { ...this.state, ...newState }
setState(state, newState) ==
  [f \in DOMAIN state |-> IF f \in DOMAIN newState THEN newState[f] ELSE state[f]]

\* What `await this.env.AI.run(...)` comes to.  run: the call "throws" (or its
\* promise rejects) or "returns".  parse: what JSON.parse makes of the text
\* taken from the response (the response itself if it is a string, else its
\* response or text property, else its JSON.stringify, or "{}" for a response
\* that is neither string nor object): it "throws", or yields "null", or yields
\* a "value" whose properties of interest are `fields` (none for a primitive).
AiOutcome(run, parse, fields) == [run |-> run, parse |-> parse, fields |-> fields]

NoFields == [k \in {} |-> 0]
T_Custom == <<"D","N","S"," ","L","o","o","p">>

AI_Rejects == AiOutcome("throws", "throws", NoFields)
AI_Prose == AiOutcome("returns", "throws", NoFields)
AI_Null == AiOutcome("returns", "null", NoFields)
AI_NoFields == AiOutcome("returns", "value", NoFields)
AI_TypeOnly == AiOutcome("returns", "value", [type |-> T_Custom])
AI_Falsy == AiOutcome("returns", "value", [type |-> <<>>, rootCause |-> <<>>, confidence |-> 0])
AI_Complete ==
  AiOutcome("returns", "value",
            [type |-> T_Custom, rootCause |-> <<"resolver points at itself">>,
             suggestions |-> <<"Fix the forwarder", "Flush the cache", "Restart the resolver">>,
             relatedPatterns |-> <<"SERVFAIL">>, confidence |-> 90])

AiOutcomes == {AI_Rejects, AI_Prose, AI_Null, AI_NoFields, AI_TypeOnly, AI_Falsy, AI_Complete}

\* performAiAnalysis without its try/catch: a failure of the AI call or of
\* the parsing leaves the method as an exception.
performAiAnalysisNoCatch(errorMessage, category, outcome) ==
  LET parsed == outcome.fields
      failed == outcome.run = "throws" \/ outcome.parse \in {"throws", "null"}
  IN [threw |-> failed,
      analysis |->
        [type |-> IF "type" \in DOMAIN parsed /\ parsed.type # <<>>
                    THEN parsed.type ELSE category,
         category |-> category,
         rootCause |-> IF "rootCause" \in DOMAIN parsed /\ parsed.rootCause # <<>>
                         THEN parsed.rootCause ELSE <<"Unknown cause">>,
         suggestions |-> IF "suggestions" \in DOMAIN parsed THEN parsed.suggestions
                         ELSE <<"Review error logs", "Check recent changes">>,
         relatedPatterns |-> IF "relatedPatterns" \in DOMAIN parsed
                               THEN parsed.relatedPatterns ELSE <<>>,
         confidence |-> IF "confidence" \in DOMAIN parsed /\ parsed.confidence # 0
                          THEN parsed.confidence ELSE AiDefaultConfidence]]

\* ErrorAnalysisAgent.performAiAnalysis, given what the AI call comes to.
\* Everything from the call to the return is inside one try: a rejected call,
\* text JSON.parse refuses, and `null` (reading parsed.type throws) all end in
\* the catch, which returns the rule-based analysis.  `x || d` takes d for a
\* missing property and for "" and 0.  threw: the method left by an
\* exception (it never does).
performAiAnalysis(errorMessage, category, outcome) ==
  LET parsed == outcome.fields IN
  IF outcome.run = "throws" \/ outcome.parse \in {"throws", "null"}
    THEN [threw |-> FALSE,
          analysis |-> performRuleBasedAnalysis(errorMessage, category,
                                                detectSeverity(errorMessage))]
    ELSE [threw |-> FALSE,
          analysis |->
            [type |-> IF "type" \in DOMAIN parsed /\ parsed.type # <<>>
                        THEN parsed.type ELSE category,
             category |-> category,
             rootCause |-> IF "rootCause" \in DOMAIN parsed /\ parsed.rootCause # <<>>
                             THEN parsed.rootCause ELSE <<"Unknown cause">>,
             suggestions |-> IF "suggestions" \in DOMAIN parsed THEN parsed.suggestions
                             ELSE <<"Review error logs", "Check recent changes">>,
             relatedPatterns |-> IF "relatedPatterns" \in DOMAIN parsed
                                   THEN parsed.relatedPatterns ELSE <<>>,
             confidence |-> IF "confidence" \in DOMAIN parsed /\ parsed.confidence # 0
                              THEN parsed.confidence ELSE AiDefaultConfidence]]

\* analyzeError up to its first suspension point: setState({agentStatus:
\* "analyzing"}).
analyzeErrorStart(state) == setState(state, [agentStatus |-> "analyzing"])

\* analyzeError finishing without counting the analysis in totalAnalyzed.
analyzeErrorFinishUncounted(state, errorId, errorMessage, aiAnalysis) ==
  LET severity == detectSeverity(errorMessage)
      errorRecord == [id |-> errorId,
                      error |-> Take(errorMessage, ErrorRecordLen),
                      analysis |-> aiAnalysis,
                      severity |-> severity]
      newState == [totalAnalyzed |-> state.totalAnalyzed,
                   recentErrors |-> Take(<<errorRecord>> \o state.recentErrors, RecentErrorsCap),
                   errorPatterns |-> Increment(state.errorPatterns, aiAnalysis.type),
                   agentStatus |-> "idle"]
  IN [state |-> setState(state, newState), record |-> errorRecord]

\* analyzeError finishing without the slice(0, 20) of recentErrors.
analyzeErrorFinishUncapped(state, errorId, errorMessage, aiAnalysis) ==
  LET severity == detectSeverity(errorMessage)
      errorRecord == [id |-> errorId,
                      error |-> Take(errorMessage, ErrorRecordLen),
                      analysis |-> aiAnalysis,
                      severity |-> severity]
      newState == [totalAnalyzed |-> state.totalAnalyzed + 1,
                   recentErrors |-> <<errorRecord>> \o state.recentErrors,
                   errorPatterns |-> Increment(state.errorPatterns, aiAnalysis.type),
                   agentStatus |-> "idle"]
  IN [state |-> setState(state, newState), record |-> errorRecord]

\* analyzeError from the analysis to its return: build the record, update the
\* state read at that moment.  The result is the agent's state after the call
\* and the record returned.
analyzeErrorFinish(state, errorId, errorMessage, aiAnalysis) ==
  Only({Only({[state |-> setState(state, newState), record |-> errorRecord] :
               newState \in
                 {[totalAnalyzed |-> state.totalAnalyzed + 1,
                   recentErrors |-> Take(<<errorRecord>> \o state.recentErrors,
                                         RecentErrorsCap),
                   errorPatterns |-> Increment(state.errorPatterns, aiAnalysis.type),
                   agentStatus |-> "idle"]}}) :
        errorRecord \in
          {[id |-> errorId,
            error |-> Take(errorMessage, ErrorRecordLen),
            analysis |-> aiAnalysis,
            severity |-> detectSeverity(errorMessage)]}})

\* The catch block of analyzeError: setState({agentStatus: "error"}), rethrow.
analyzeErrorCatch(state) == setState(state, [agentStatus |-> "error"])

\* ErrorAnalysisAgent.analyzeError with env.AI unset (the route builds the agent
\* with env = {}): it runs to its return without suspending.
analyzeError(state, errorId, errorMessage) ==
  Only({Only({analyzeErrorFinish(analyzing, errorId, errorMessage, aiAnalysis) :
               aiAnalysis \in {performRuleBasedAnalysis(errorMessage, category,
                                                        detectSeverity(errorMessage))}}) :
        analyzing \in {analyzeErrorStart(state)},
        category \in {categorizeError(errorMessage)}})

\* ErrorAnalysisAgent.getStatistics
getStatistics(state) ==
  LET sevs == {state.recentErrors[i].severity : i \in 1..Len(state.recentErrors)} IN
  [totalAnalyzed |-> state.totalAnalyzed,
   patternCounts |-> state.errorPatterns,
   severityDistribution |->
     [v \in sevs |->
        Cardinality({i \in 1..Len(state.recentErrors) : state.recentErrors[i].severity = v})],
   recentErrorCount |-> Len(state.recentErrors)]

\* ErrorAnalysisAgent.searchSimilarErrors
searchSimilarErrors(state, query) ==
  LET lowerQuery == ToLowerCase(query) IN
  SelectSeq(state.recentErrors,
            LAMBDA record :
              \/ Includes(ToLowerCase(record.error), lowerQuery)
              \/ Includes(ToLowerCase(record.analysis.type), lowerQuery)
              \/ Includes(ToLowerCase(record.analysis.category), lowerQuery))

\* ErrorAnalysisAgent.generateDailySummary: the two numbers of its sentence.
generateDailySummary(state) ==
  <<getStatistics(state).totalAnalyzed, getStatistics(state).recentErrorCount>>

\* The properties of an ErrorAnalysisAgent instance a caller may name: the
\* methods decorated with @callable(), other methods (public, scheduled, and
\* private in TypeScript only), a property that is not a function, and a name
\* the instance does not have.
CallableMethods == {"analyzeError", "searchSimilarErrors", "getStatistics"}
OtherMethods == {"setState", "generateDailySummary", "detectSeverity"}
NotMethods == {"name", "missing"}
MethodNames == CallableMethods \cup OtherMethods \cup NotMethods

\* Partial states a caller passes to setState.
StatePatches == {[totalAnalyzed |-> 7], [agentStatus |-> "error"]}

\* The argument lists the callers use, per method name.
MethodArgs(methodName) ==
  IF methodName \in {"analyzeError", "searchSimilarErrors", "detectSeverity"} THEN ClassifyTexts
  ELSE IF methodName = "setState" THEN StatePatches
  ELSE {Null}

\* Agent.executeMethod: `method = this[methodName]`; a function is applied to
\* the agent, anything else throws "Method <name> not found or not callable".
\* Result: the agent's state afterwards, whether the call threw, the value
\* returned.
executeMethod(state, methodName, arg, errorId) ==
  IF methodName \in NotMethods
    THEN [state |-> state, threw |-> TRUE, value |-> <<"Method", methodName, "not found or not callable">>]
  ELSE IF methodName = "analyzeError"
    THEN [state |-> analyzeError(state, errorId, arg).state, threw |-> FALSE,
          value |-> analyzeError(state, errorId, arg).record]
  ELSE IF methodName = "searchSimilarErrors"
    THEN [state |-> state, threw |-> FALSE, value |-> searchSimilarErrors(state, arg)]
  ELSE IF methodName = "getStatistics"
    THEN [state |-> state, threw |-> FALSE, value |-> getStatistics(state)]
  ELSE IF methodName = "setState"
    THEN [state |-> setState(state, arg), threw |-> FALSE, value |-> Null]
  ELSE IF methodName = "generateDailySummary"
    THEN [state |-> state, threw |-> FALSE, value |-> generateDailySummary(state)]
  ELSE [state |-> state, threw |-> FALSE, value |-> detectSeverity(arg)]

\* ------------------------------------------------------- the memory stores

\* The literal both route modules start from (worker/route.ts `memory`,
\* memory/route.ts `memoryStore`).
InitMemory ==
  [totalErrors |-> 0,
   lastProcessed |-> Null,
   workflows |-> <<>>,
   statistics |-> [errorTypes |-> EmptyMap, severityCount |-> EmptyMap,
                   averageProcessingTime |-> 0]]

\* The workflow record the submit handler builds from the agent's record.
WorkflowRecordOf(eventId, errorRecord) ==
  [id |-> eventId,
   result |-> [errorType |-> IF errorRecord.analysis.type = <<>> THEN T_Unknown
                             ELSE errorRecord.analysis.type,
               severity |-> errorRecord.severity,
               suggestions |-> errorRecord.analysis.suggestions,
               rootCause |-> errorRecord.analysis.rootCause,
               confidence |-> errorRecord.analysis.confidence]]

\* Variants of the Commit stage that differ from the handler in one write:
\* `totalErrors = 1` in place of `+= 1`; the new record appended at the end
\* of workflows; severityCount left as it was.
CommitAssign(mem, error, workflowRecord, errorRecord) ==
  [totalErrors |-> 1,
   lastProcessed |-> Some(Take(error, LastProcessedLen)),
   workflows |-> Take(<<workflowRecord>> \o mem.workflows, WorkflowCap),
   statistics |->
     [errorTypes |-> Increment(mem.statistics.errorTypes, workflowRecord.result.errorType),
      severityCount |-> Increment(mem.statistics.severityCount, errorRecord.severity),
      averageProcessingTime |-> mem.statistics.averageProcessingTime]]

CommitAppend(mem, error, workflowRecord, errorRecord) ==
  [totalErrors |-> mem.totalErrors + 1,
   lastProcessed |-> Some(Take(error, LastProcessedLen)),
   workflows |-> Take(mem.workflows \o <<workflowRecord>>, WorkflowCap),
   statistics |->
     [errorTypes |-> Increment(mem.statistics.errorTypes, workflowRecord.result.errorType),
      severityCount |-> Increment(mem.statistics.severityCount, errorRecord.severity),
      averageProcessingTime |-> mem.statistics.averageProcessingTime]]

CommitSkipSeverity(mem, error, workflowRecord, errorRecord) ==
  [totalErrors |-> mem.totalErrors + 1,
   lastProcessed |-> Some(Take(error, LastProcessedLen)),
   workflows |-> Take(<<workflowRecord>> \o mem.workflows, WorkflowCap),
   statistics |->
     [errorTypes |-> Increment(mem.statistics.errorTypes, workflowRecord.result.errorType),
      severityCount |-> mem.statistics.severityCount,
      averageProcessingTime |-> mem.statistics.averageProcessingTime]]

\* The Commit stage writing lastProcessed only while it is null.
CommitFirstText(mem, error, workflowRecord, errorRecord) ==
  [totalErrors |-> mem.totalErrors + 1,
   lastProcessed |-> IF mem.lastProcessed = Null THEN Some(Take(error, LastProcessedLen))
                     ELSE mem.lastProcessed,
   workflows |-> Take(<<workflowRecord>> \o mem.workflows, WorkflowCap),
   statistics |->
     [errorTypes |-> Increment(mem.statistics.errorTypes, workflowRecord.result.errorType),
      severityCount |-> Increment(mem.statistics.severityCount, errorRecord.severity),
      averageProcessingTime |-> mem.statistics.averageProcessingTime]]

\* The Commit stage of the submit handler: the writes to `memory`, in one
\* synchronous run.
Commit(mem, error, workflowRecord, errorRecord) ==
  [totalErrors |-> mem.totalErrors + 1,
   lastProcessed |-> Some(Take(error, LastProcessedLen)),
   workflows |-> Take(<<workflowRecord>> \o mem.workflows, WorkflowCap),
   statistics |->
     [errorTypes |-> Increment(mem.statistics.errorTypes, workflowRecord.result.errorType),
      severityCount |-> Increment(mem.statistics.severityCount, errorRecord.severity),
      averageProcessingTime |-> mem.statistics.averageProcessingTime]]

\* memoryOperations of memory-store.ts.  Each takes a store object and returns
\* an object; `store` is the object passed in as the call leaves it, `result`
\* the object returned.

\* addWorkflow incrementing the argument's errorTypes map in place, without the
\* copy `{ ...store.statistics.errorTypes }`.
addWorkflowInPlace(store, workflow) ==
  LET workflows == Take(<<workflow>> \o store.workflows, WorkflowCap)
      errorTypes == Increment(store.statistics.errorTypes, workflow.result.errorType)
      severityCount == Increment(store.statistics.severityCount, workflow.result.severity)
  IN [store |-> [store EXCEPT !.statistics.errorTypes = errorTypes],
      result |-> [store EXCEPT !.workflows = workflows,
                               !.statistics.errorTypes = errorTypes,
                               !.statistics.severityCount = severityCount]]

incrementErrors(store) ==
  [store |-> store,
   result |-> [store EXCEPT !.totalErrors = store.totalErrors + 1]]

updateLastProcessed(store, error) ==
  [store |-> store,
   result |-> [store EXCEPT !.lastProcessed = Some(Take(error, LastProcessedLen))]]

addWorkflow(store, workflow) ==
  LET workflows == Take(<<workflow>> \o store.workflows, WorkflowCap)
      errorTypes == Increment(store.statistics.errorTypes, workflow.result.errorType)
      severityCount == Increment(store.statistics.severityCount, workflow.result.severity)
  IN [store |-> store,
      result |-> [store EXCEPT !.workflows = workflows,
                               !.statistics.errorTypes = errorTypes,
                               !.statistics.severityCount = severityCount]]

\* ------------------------------------------------------------------- state

VARIABLES
  memory,       \* worker/route.ts: the module-level `memory` the pipeline commits to
  memoryStore,  \* memory/route.ts: the module-level `memoryStore` of the memory endpoints
  errorAgent,   \* worker/route.ts: Null, or Some(state of the ErrorAnalysisAgent)
  subscribers,  \* realtime.ts: the Set of callbacks, in insertion order; the
                \* callback of connection c is named c
  connStatus,   \* per connection: "idle" (not requested yet), "open", "closed"
                \* (its ReadableStream was cancelled)
  timers,       \* the connections whose keep-alive setInterval is still armed
  frames,       \* per connection: the frames enqueued on its stream
  pc,           \* per submission: "idle", "validating", "analyzing", "done";
                \* "awaitingAI" while analyzeError waits for the AI call
  req,          \* per submission: its request
  resp,         \* per submission: Null, or Some(response)
  busLog,       \* history: one entry per call of realtimeEvents.emit
  subscribedAt, \* history: per connection, Len(busLog) when its callback subscribed
  timerFaults,  \* history: connections whose keep-alive callback threw
  ticks,        \* history: keep-alive ticks so far
  lastResp,     \* the last response of a memory or status endpoint
  calls,        \* history: calls of the memory and status endpoints so far
  memHist,      \* history: what happened to the stores (see Init)
  tokens        \* history: per call of subscribe, the callback of the token it
                \* returned, how often the token was invoked, and whether an
                \* invocation after the first changed the subscriber set

vars ==
  <<memory, memoryStore, errorAgent, subscribers, connStatus, timers, frames, pc, req,
    resp, busLog, subscribedAt, timerFaults, ticks, lastResp, calls, memHist, tokens>>

streamVars == <<subscribers, connStatus, timers, subscribedAt>>
postVars == <<pc, req, resp>>
endpointVars == <<memoryStore, lastResp, calls>>

NoRequest == [malformed |-> FALSE, error |-> Undefined]

Init ==
  /\ memory = InitMemory
  /\ memoryStore = InitMemory
  /\ errorAgent = Null
  /\ subscribers = <<>>
  /\ connStatus = [c \in Conns |-> "idle"]
  /\ timers = {}
  /\ frames = [c \in Conns |-> <<>>]
  /\ pc = [s \in Subs |-> "idle"]
  /\ req = [s \in Subs |-> NoRequest]
  /\ resp = [s \in Subs |-> Null]
  /\ busLog = <<>>
  /\ subscribedAt = [c \in Conns |-> 0]
  /\ timerFaults = {}
  /\ ticks = 0
  /\ lastResp = Null
  /\ calls = 0
     \* cleared: DELETE /api/memory ran, and since then no submission succeeded
     \*          and no POST /api/memory ran
     \* everCleared, everPosted: DELETE, POST /api/memory ran at least once
     \* commits: the workflow records committed to `memory`, oldest first
     \* ai: what the AI calls came to, in the order they were answered
  /\ memHist = [cleared |-> FALSE, everCleared |-> FALSE, everPosted |-> FALSE,
                commits |-> <<>>, ai |-> <<>>]
  /\ tokens = <<>>

\* ---------------------------------------------------------------- EventBus

\* Set.prototype.add on the insertion-ordered subscriber set.
SetAdd(set, cb) ==
  IF \E i \in 1..Len(set) : set[i] = cb THEN set ELSE Append(set, cb)

\* Set.prototype.delete
SetDelete(set, cb) == SelectSeq(set, LAMBDA x : x # cb)

\* RealtimeEventEmitter.subscribe: the set after the call.  The token it returns
\* is Unsubscribe with the same callback.
Subscribe(set, cb) == SetAdd(set, cb)

\* The closure subscribe returns.
Unsubscribe(set, cb) == SetDelete(set, cb)

\* ReadableStreamDefaultController.enqueue succeeds only on a readable stream;
\* on a cancelled one it throws a TypeError.
CanEnqueue(status, c) == status[c] = "open"

\* The frame the forwarding callback of a connection writes for an event:
\* `data: ${JSON.stringify(event)}\n\n`.  seq is the position of the publication
\* in busLog (history), 0 for frames that are not publications.
DataFrame(event, seq) == [kind |-> "data", body |-> event, seq |-> seq]

\* RealtimeEventEmitter.emit: subscribers.forEach(callback => callback(event)).
\* The callbacks run in insertion order; the first one that throws ends the
\* forEach and the exception leaves emit.  Result: the frames afterwards,
\* whether emit threw, the callbacks invoked, the set registered at the call.
Emit(set, status, fr, event, seq) ==
  LET bad == {i \in 1..Len(set) : ~CanEnqueue(status, set[i])}
      stop == IF bad = {} THEN Len(set) + 1 ELSE Min(bad)
      wrote == {set[i] : i \in 1..(stop - 1)}
  IN [frames |-> [c \in Conns |->
                    IF c \in wrote THEN Append(fr[c], DataFrame(event, seq)) ELSE fr[c]],
      threw |-> bad # {},
      invoked |-> {set[i] : i \in 1..(IF bad = {} THEN Len(set) ELSE stop)},
      registered |-> {set[i] : i \in 1..Len(set)}]

\* History entry of one emit call by submission s.
LogEntry(s, event, out, status) ==
  [sub |-> s, event |-> event, registered |-> out.registered, invoked |-> out.invoked,
   threw |-> out.threw, open |-> {c \in Conns : status[c] = "open"},
   closed |-> {c \in Conns : status[c] = "closed"}]

\* ------------------------------------------------------ event stream endpoint

ConnectedMessage == [id |-> Null, type |-> "connected", status |-> "", data |-> Null]
KeepAliveFrame ==
  [kind |-> "comment",
   body |-> [id |-> Null, type |-> "keepalive", status |-> "", data |-> Null],
   seq |-> 0]

\* StreamStart with a bus that buffers: the new connection is also sent the
\* publications made before it subscribed.
StreamStartReplay(c) ==
  /\ connStatus[c] = "idle"
  /\ \A d \in Conns : d < c => connStatus[d] # "idle"
  /\ connStatus' = [connStatus EXCEPT ![c] = "open"]
  /\ frames' = [frames EXCEPT ![c] =
                  <<DataFrame(ConnectedMessage, 0)>> \o
                  [i \in 1..Len(busLog) |-> DataFrame(busLog[i].event, i)]]
  /\ subscribers' = Subscribe(subscribers, c)
  /\ timers' = timers \cup {c}
  /\ subscribedAt' = [subscribedAt EXCEPT ![c] = Len(busLog)]
  /\ UNCHANGED <<memory, errorAgent, postVars, endpointVars, tokens, busLog, timerFaults, ticks,
                 memHist>>

\* start(controller) publishing the connected message on the bus after it
\* subscribed, in place of writing it to its own controller.
StreamStartBroadcast(c) ==
  /\ connStatus[c] = "idle"
  /\ \A d \in Conns : d < c => connStatus[d] # "idle"
  /\ connStatus' = [connStatus EXCEPT ![c] = "open"]
  /\ subscribers' = Subscribe(subscribers, c)
  /\ LET out == Emit(subscribers', connStatus', frames, ConnectedMessage, Len(busLog) + 1)
     IN /\ frames' = out.frames
        /\ busLog' = Append(busLog, LogEntry(0, ConnectedMessage, out, connStatus'))
  /\ timers' = timers \cup {c}
  /\ subscribedAt' = [subscribedAt EXCEPT ![c] = Len(busLog)]
  /\ UNCHANGED <<memory, errorAgent, postVars, endpointVars, tokens, timerFaults, ticks,
                 memHist>>

\* GET /api/events: the stream's start(controller) runs at construction: it
\* enqueues the connected frame, subscribes the forwarding callback and arms the
\* keep-alive interval.  Connections are numbered in the order they are opened.
StreamStart(c) ==
  /\ connStatus[c] = "idle"
  /\ \A d \in Conns : d < c => connStatus[d] # "idle"
  /\ connStatus' = [connStatus EXCEPT ![c] = "open"]
  /\ frames' = [frames EXCEPT ![c] = Append(@, DataFrame(ConnectedMessage, 0))]
  /\ subscribers' = Subscribe(subscribers, c)
  /\ timers' = timers \cup {c}
  /\ subscribedAt' = [subscribedAt EXCEPT ![c] = Len(busLog)]
  /\ UNCHANGED <<memory, errorAgent, postVars, endpointVars, tokens, busLog, timerFaults, ticks,
                 memHist>>

\* The client disconnects and the runtime cancels the stream.  The underlying
\* source passed to ReadableStream has a start method only: the function that
\* start returns (clearInterval(interval); unsubscribe()) is not a cancel hook
\* and nothing calls it, so the subscription and the interval stay.
StreamCancel(c) ==
  /\ connStatus[c] = "open"
  /\ connStatus' = [connStatus EXCEPT ![c] = "closed"]
  /\ UNCHANGED <<subscribers, timers, frames, subscribedAt>>
  /\ UNCHANGED <<memory, errorAgent, postVars, endpointVars, tokens, busLog, timerFaults, ticks,
                 memHist>>

\* The setInterval callback of connection c: controller.enqueue(": keepalive").
\* On a cancelled stream the enqueue throws inside the timer callback.
KeepAlive(c) ==
  /\ c \in timers
  /\ ticks < MaxTicks
  /\ ticks' = ticks + 1
  /\ IF CanEnqueue(connStatus, c)
       THEN /\ frames' = [frames EXCEPT ![c] = Append(@, KeepAliveFrame)]
            /\ UNCHANGED timerFaults
       ELSE /\ timerFaults' = timerFaults \cup {c}
            /\ UNCHANGED frames
  /\ UNCHANGED <<memory, errorAgent, postVars, endpointVars, tokens, busLog, streamVars, memHist>>

\* ------------------------------------------------------- the submit pipeline

\* The client names its submission: eventId is `evt_${Date.now()}` in the form,
\* modelled as the number of the submission.
EventIdOf(s) == s

\* id: `${eventId}${suffix}`, kept as the pair.
Event(eventId, suffix, type, status, data) ==
  [id |-> <<eventId, suffix>>, type |-> type, status |-> status, data |-> data]

Response(status, success, error, workflow, mem, agent) ==
  [status |-> status, success |-> success, error |-> error, workflow |-> workflow,
   memory |-> mem, agent |-> agent]

\* The catch block of POST: 500 "Processing failed".
ProcessingFailed == Response(500, FALSE, "Processing failed", Null, Null, Null)
InvalidInput == Response(400, FALSE, "Invalid input", Null, Null, Null)

\* `!error || error.trim().length === 0` with its three outcomes: "reject",
\* "accept", or "throw" (error is truthy and has no trim method).
ValidateInput(error) ==
  IF Falsy(error) THEN "reject"
  ELSE IF error.tag # "string" THEN "throw"
  ELSE IF Len(Trim(error.chars)) = 0 THEN "reject"
  ELSE "accept"

\* getErrorAgent(): the agent is built on first use.
getErrorAgent(agent) == IF agent = Null THEN InitAgentState ELSE agent[1]

Finish(s, response) ==
  /\ pc' = [pc EXCEPT ![s] = "done"]
  /\ resp' = [resp EXCEPT ![s] = Some(response)]

\* POST /api/worker up to its first timer: parse the body, publish the
\* validation event.  Submissions are numbered in the order they arrive.
PostReceive(s, r) ==
  /\ pc[s] = "idle"
  /\ \A t \in Subs : t < s => pc[t] # "idle"
  /\ req' = [req EXCEPT ![s] = r]
  /\ IF r.malformed
       THEN /\ Finish(s, ProcessingFailed)
            /\ UNCHANGED <<frames, busLog>>
       ELSE LET event == Event(EventIdOf(s), "_validation", "validation", "processing", Null)
                out == Emit(subscribers, connStatus, frames, event, Len(busLog) + 1)
            IN /\ frames' = out.frames
               /\ busLog' = Append(busLog, LogEntry(s, event, out, connStatus))
               /\ IF out.threw
                    THEN Finish(s, ProcessingFailed)
                    ELSE /\ pc' = [pc EXCEPT ![s] = "validating"]
                         /\ UNCHANGED resp
  /\ UNCHANGED <<memory, errorAgent, endpointVars, tokens, streamVars, timerFaults, ticks, memHist>>

\* The handler without its catch block: when the validation throws, the
\* request is never answered.
PostValidateHangs(s) ==
  /\ pc[s] = "validating"
  /\ ValidateInput(req[s].error) # "throw"
  /\ LET verdict == ValidateInput(req[s].error)
         event == IF verdict = "reject"
                    THEN Event(EventIdOf(s), "_error", "validation", "error", Null)
                    ELSE Event(EventIdOf(s), "_workflow", "workflow", "processing", Null)
         out == Emit(subscribers, connStatus, frames, event, Len(busLog) + 1)
     IN /\ frames' = out.frames
        /\ busLog' = Append(busLog, LogEntry(s, event, out, connStatus))
        /\ IF out.threw THEN Finish(s, ProcessingFailed)
           ELSE IF verdict = "reject" THEN Finish(s, InvalidInput)
           ELSE /\ pc' = [pc EXCEPT ![s] = "analyzing"]
                /\ UNCHANGED resp
  /\ UNCHANGED <<memory, errorAgent, req, endpointVars, tokens, streamVars, timerFaults, ticks,
                 memHist>>

\* The handler calling getErrorAgent() before it validates: the agent is
\* built even for a submission that is rejected.
PostValidateEager(s) ==
  /\ pc[s] = "validating"
  /\ errorAgent' = Some(getErrorAgent(errorAgent))
  /\ LET verdict == ValidateInput(req[s].error)
         event == IF verdict = "reject"
                    THEN Event(EventIdOf(s), "_error", "validation", "error", Null)
                    ELSE Event(EventIdOf(s), "_workflow", "workflow", "processing", Null)
         out == Emit(subscribers, connStatus, frames, event, Len(busLog) + 1)
     IN IF verdict = "throw"
          THEN /\ Finish(s, ProcessingFailed)
               /\ UNCHANGED <<frames, busLog>>
          ELSE /\ frames' = out.frames
               /\ busLog' = Append(busLog, LogEntry(s, event, out, connStatus))
               /\ IF out.threw THEN Finish(s, ProcessingFailed)
                  ELSE IF verdict = "reject" THEN Finish(s, InvalidInput)
                  ELSE /\ pc' = [pc EXCEPT ![s] = "analyzing"]
                       /\ UNCHANGED resp
  /\ UNCHANGED <<memory, req, endpointVars, tokens, streamVars, timerFaults, ticks, memHist>>

\* POST /api/worker after the first timer: validate, then either reject with
\* the error event and 400, or publish the workflow event.
PostValidate(s) ==
  /\ pc[s] = "validating"
  /\ LET verdict == ValidateInput(req[s].error)
         event == IF verdict = "reject"
                    THEN Event(EventIdOf(s), "_error", "validation", "error", Null)
                    ELSE Event(EventIdOf(s), "_workflow", "workflow", "processing", Null)
         out == Emit(subscribers, connStatus, frames, event, Len(busLog) + 1)
     IN IF verdict = "throw"
          THEN /\ Finish(s, ProcessingFailed)
               /\ UNCHANGED <<frames, busLog>>
          ELSE /\ frames' = out.frames
               /\ busLog' = Append(busLog, LogEntry(s, event, out, connStatus))
               /\ IF out.threw THEN Finish(s, ProcessingFailed)
                  ELSE IF verdict = "reject" THEN Finish(s, InvalidInput)
                  ELSE /\ pc' = [pc EXCEPT ![s] = "analyzing"]
                       /\ UNCHANGED resp
  /\ UNCHANGED <<memory, errorAgent, req, endpointVars, tokens, streamVars, timerFaults, ticks,
                 memHist>>

\* POST /api/worker from the return of analyzeError to the response: Commit,
\* publish memory_update and completed, answer 200.  An emit that throws leaves
\* through the catch block after the writes made before it.  hist is the
\* history the step extends.
CommitAndFinalize(s, analysed, hist) ==
  \E workflowRecord \in {WorkflowRecordOf(EventIdOf(s), analysed.record)} :
  \E mem \in {Commit(memory, req[s].error.chars, workflowRecord, analysed.record)} :
  \E memoryEvent \in {Event(EventIdOf(s), "_memory", "memory_update", "completed",
                             Some([memory |-> mem]))} :
  \E out1 \in {Emit(subscribers, connStatus, frames, memoryEvent, Len(busLog) + 1)} :
  \E log1 \in {Append(busLog, LogEntry(s, memoryEvent, out1, connStatus))} :
  \E completedEvent \in {Event(EventIdOf(s), "", "completed", "completed",
                                Some(workflowRecord.result))} :
  \E out2 \in {Emit(subscribers, connStatus, out1.frames, completedEvent, Len(log1) + 1)} :
  \E log2 \in {Append(log1, LogEntry(s, completedEvent, out2, connStatus))} :
     /\ memory' = mem
     /\ memHist' = [hist EXCEPT !.cleared = FALSE,
                                !.commits = Append(@, workflowRecord)]
     /\ IF out1.threw
          THEN /\ frames' = out1.frames
               /\ busLog' = log1
               /\ Finish(s, ProcessingFailed)
          ELSE /\ frames' = out2.frames
               /\ busLog' = log2
               /\ IF out2.threw THEN Finish(s, ProcessingFailed)
                  ELSE Finish(s, Response(200, TRUE, "", Some(workflowRecord.result),
                                          Some(mem), Some(analysed.state)))

\* POST /api/worker after the second timer: Analyze, Commit, publish
\* memory_update and completed, answer 200.  With env.AI unset analyzeError does
\* not suspend, so this runs as one step.  An emit that throws leaves through
\* the catch block after the writes made before it.
PostAnalyze(s) ==
  /\ pc[s] = "analyzing"
  /\ \E analysed \in {analyzeError(getErrorAgent(errorAgent), EventIdOf(s),
                                     req[s].error.chars)} :
        /\ errorAgent' = Some(analysed.state)
        /\ CommitAndFinalize(s, analysed, memHist)
  /\ UNCHANGED <<req, endpointVars, tokens, streamVars, timerFaults, ticks>>

\* POST /api/worker after the second timer when the agent has env.AI (the
\* configuration getErrorAgent announces): analyzeError sets agentStatus and
\* suspends at `await this.performAiAnalysis(...)`.
PostAnalyzeStart(s) ==
  /\ pc[s] = "analyzing"
  /\ errorAgent' = Some(analyzeErrorStart(getErrorAgent(errorAgent)))
  /\ pc' = [pc EXCEPT ![s] = "awaitingAI"]
  /\ UNCHANGED <<memory, req, resp, frames, busLog, memHist>>
  /\ UNCHANGED <<endpointVars, tokens, streamVars, timerFaults, ticks>>

\* The AI call of submission s comes to `outcome` and the handler runs on to
\* its response: analyzeError finishes (or its catch rethrows and POST's catch
\* answers 500), then Commit and the two publications.
PostAnalyzeResume(s, outcome) ==
  /\ pc[s] = "awaitingAI"
  /\ LET error == req[s].error.chars
         ai == performAiAnalysis(error, categorizeError(error), outcome)
         analysed == analyzeErrorFinish(errorAgent[1], EventIdOf(s), error, ai.analysis)
         hist == [memHist EXCEPT !.ai = Append(@, [sub |-> s, outcome |-> outcome])]
     IN IF ai.threw
          THEN /\ errorAgent' = Some(analyzeErrorCatch(errorAgent[1]))
               /\ memHist' = hist
               /\ Finish(s, ProcessingFailed)
               /\ UNCHANGED <<memory, frames, busLog>>
          ELSE /\ errorAgent' = Some(analysed.state)
               /\ CommitAndFinalize(s, analysed, hist)
  /\ UNCHANGED <<req, endpointVars, tokens, streamVars, timerFaults, ticks>>

\* ----------------------------------------------- memory and status endpoints

\* Bodies clients send to POST /api/memory: a JSON object as a function on its
\* keys, or a body request.json() rejects.
MemoryUpdates ==
  {[malformed |-> FALSE, fields |-> [k \in {} |-> 0]],
   [malformed |-> FALSE, fields |-> [k \in {"totalErrors"} |-> 7]],
   [malformed |-> FALSE, fields |-> [k \in {"workflows"} |-> <<>>]],
   [malformed |-> TRUE, fields |-> [k \in {} |-> 0]]}

\* { ...store, ...updates }
Spread(store, updates) ==
  [f \in (DOMAIN store) \cup (DOMAIN updates) |->
     IF f \in DOMAIN updates THEN updates[f] ELSE store[f]]

EndpointResponse(endpoint, status, body) ==
  Some([endpoint |-> endpoint, status |-> status, body |-> body])

\* GET /api/memory: Response.json(memoryStore)
MemoryGET ==
  /\ calls < MaxCalls
  /\ calls' = calls + 1
  /\ lastResp' = EndpointResponse("GET /api/memory", 200, Some(memoryStore))
  /\ UNCHANGED <<memory, memoryStore, errorAgent, postVars, streamVars, tokens, frames, busLog,
                 timerFaults, ticks, memHist>>

\* POST /api/memory: memoryStore = { ...memoryStore, ...updates }
MemoryPOST(updates) ==
  /\ calls < MaxCalls
  /\ calls' = calls + 1
  /\ IF updates.malformed
       THEN /\ lastResp' = EndpointResponse("POST /api/memory", 500, Null)
            /\ UNCHANGED <<memoryStore, memHist>>
       ELSE /\ memoryStore' = Spread(memoryStore, updates.fields)
            /\ lastResp' = EndpointResponse("POST /api/memory", 200, Some(memoryStore'))
            /\ memHist' = [memHist EXCEPT !.cleared = FALSE, !.everPosted = TRUE]
  /\ UNCHANGED <<memory, errorAgent, postVars, streamVars, tokens, frames, busLog, timerFaults,
                 ticks>>

\* DELETE /api/memory: memoryStore is assigned the zero-value literal.
MemoryDELETE ==
  /\ calls < MaxCalls
  /\ calls' = calls + 1
  /\ memoryStore' = InitMemory
  /\ lastResp' = EndpointResponse("DELETE /api/memory", 200, Some(memoryStore'))
  /\ memHist' = [memHist EXCEPT !.cleared = TRUE, !.everCleared = TRUE]
  /\ UNCHANGED <<memory, errorAgent, postVars, streamVars, tokens, frames, busLog, timerFaults,
                 ticks>>

\* A status handler that marks the agent while it reads it.
StatusGETMarking ==
  /\ calls < MaxCalls
  /\ calls' = calls + 1
  /\ LET agent == setState(getErrorAgent(errorAgent), [agentStatus |-> "analyzing"])
     IN /\ errorAgent' = Some(agent)
        /\ lastResp' = EndpointResponse("GET /api/worker", 200,
                         Some([agent |-> [state |-> agent, statistics |-> getStatistics(agent)],
                               memory |-> memory]))
  /\ UNCHANGED <<memory, memoryStore, postVars, streamVars, tokens, frames, busLog, timerFaults,
                 ticks, memHist>>

\* GET /api/worker: the agent (built if this is its first use), its statistics
\* and the pipeline's `memory`.
StatusGET ==
  /\ calls < MaxCalls
  /\ calls' = calls + 1
  /\ LET agent == getErrorAgent(errorAgent)
     IN /\ errorAgent' = Some(agent)
        /\ lastResp' = EndpointResponse("GET /api/worker", 200,
                         Some([agent |-> [state |-> agent, statistics |-> getStatistics(agent)],
                               memory |-> memory]))
  /\ UNCHANGED <<memory, memoryStore, postVars, streamVars, tokens, frames, busLog, timerFaults,
                 ticks, memHist>>

\* ------------------------------------------------------------ specifications

\* The pipeline with the event stream endpoint.
Next ==
  \/ \E c \in 1..MaxPipelineConns : StreamStart(c)
  \/ \E c \in Conns : StreamCancel(c)
  \/ \E c \in Conns : KeepAlive(c)
  \/ \E s \in Subs, r \in Requests : PostReceive(s, r)
  \/ \E s \in Subs : PostValidate(s)
  \/ \E s \in Subs : PostAnalyze(s)

Spec == Init /\ [][Next]_vars

\* The submit pipeline alone: concurrent submissions, no stream connection.
NextPipeline ==
  \/ \E s \in Subs, r \in Requests : PostReceive(s, r)
  \/ \E s \in Subs : PostValidate(s)
  \/ \E s \in Subs : PostAnalyze(s)

SpecPipeline == Init /\ [][NextPipeline]_vars

\* The worker module after k submissions were processed one after the other,
\* each to its 200 response: submission -k is the k-th of them.
RECURSIVE Warm(_)
Warm(k) ==
  IF k = 0 THEN [memory |-> InitMemory, errorAgent |-> Null, commits |-> <<>>]
  ELSE LET before == Warm(k - 1)
           error == (IF k % 2 = 1 THEN E_TypeError ELSE E_Fatal).chars
           analysed == analyzeError(getErrorAgent(before.errorAgent), -k, error)
           workflowRecord == WorkflowRecordOf(-k, analysed.record)
       IN [memory |-> Commit(before.memory, error, workflowRecord, analysed.record),
           errorAgent |-> Some(analysed.state),
           commits |-> Append(before.commits, workflowRecord)]

\* The submit pipeline in a process that has already served submissions:
\* none, one fewer than PriorCommits, or PriorCommits of them.
WarmStarts == {0, PriorCommits - 1, PriorCommits}

InitWarm ==
  \E k \in WarmStarts :
    /\ memory = Warm(k).memory
    /\ memoryStore = InitMemory
    /\ errorAgent = Warm(k).errorAgent
    /\ subscribers = <<>>
    /\ connStatus = [c \in Conns |-> "idle"]
    /\ timers = {}
    /\ frames = [c \in Conns |-> <<>>]
    /\ pc = [s \in Subs |-> "idle"]
    /\ req = [s \in Subs |-> NoRequest]
    /\ resp = [s \in Subs |-> Null]
    /\ busLog = <<>>
    /\ subscribedAt = [c \in Conns |-> 0]
    /\ timerFaults = {}
    /\ ticks = 0
    /\ lastResp = Null
    /\ calls = 0
    /\ memHist = [cleared |-> FALSE, everCleared |-> FALSE, everPosted |-> FALSE,
                  commits |-> Warm(k).commits, ai |-> <<>>]
    /\ tokens = <<>>

SpecWarm == InitWarm /\ [][NextPipeline]_vars

\* The submit pipeline in a process whose agent has analysed none, one fewer
\* than PriorAnalyses, or PriorAnalyses errors.
AgentWarmStarts == {0, PriorAnalyses - 1, PriorAnalyses}

InitWarmAgent ==
  \E k \in AgentWarmStarts :
    /\ memory = Warm(k).memory
    /\ memoryStore = InitMemory
    /\ errorAgent = Warm(k).errorAgent
    /\ subscribers = <<>>
    /\ connStatus = [c \in Conns |-> "idle"]
    /\ timers = {}
    /\ frames = [c \in Conns |-> <<>>]
    /\ pc = [s \in Subs |-> "idle"]
    /\ req = [s \in Subs |-> NoRequest]
    /\ resp = [s \in Subs |-> Null]
    /\ busLog = <<>>
    /\ subscribedAt = [c \in Conns |-> 0]
    /\ timerFaults = {}
    /\ ticks = 0
    /\ lastResp = Null
    /\ calls = 0
    /\ memHist = [cleared |-> FALSE, everCleared |-> FALSE, everPosted |-> FALSE,
                  commits |-> Warm(k).commits, ai |-> <<>>]
    /\ tokens = <<>>

SpecWarmAgent == InitWarmAgent /\ [][NextPipeline]_vars

\* The requests that pass validation.
AcceptedRequests == {r \in Requests : ~r.malformed /\ ValidateInput(r.error) = "accept"}

\* Submissions that pass validation, fanned out to every stream connection.
NextFanout ==
  \/ \E c \in Conns : StreamStart(c)
  \/ \E c \in Conns : StreamCancel(c)
  \/ \E s \in Subs, r \in AcceptedRequests : PostReceive(s, r)
  \/ \E s \in Subs : PostValidate(s)
  \/ \E s \in Subs : PostAnalyze(s)

SpecFanout == Init /\ [][NextFanout]_vars

\* Some caller runs realtimeEvents.subscribe(cb) and keeps the token it
\* returns, `() => this.subscribers.delete(callback)`.
BusSubscribe(cb) ==
  /\ Len(tokens) < MaxTokens
  /\ subscribers' = Subscribe(subscribers, cb)
  /\ tokens' = Append(tokens, [callback |-> cb, invoked |-> 0, changedOnRepeat |-> FALSE])
  /\ UNCHANGED <<memory, errorAgent, postVars, endpointVars, connStatus, timers, frames,
                 busLog, subscribedAt, timerFaults, ticks, memHist>>

\* The holder of token t invokes it.
TokenInvoke(t) ==
  /\ tokens[t].invoked < MaxInvokes
  /\ subscribers' = Unsubscribe(subscribers, tokens[t].callback)
  /\ tokens' = [tokens EXCEPT
                  ![t].invoked = @ + 1,
                  ![t].changedOnRepeat =
                     @ \/ (tokens[t].invoked >= 1 /\ subscribers' # subscribers)]
  /\ UNCHANGED <<memory, errorAgent, postVars, endpointVars, connStatus, timers, frames,
                 busLog, subscribedAt, timerFaults, ticks, memHist>>

\* The EventBus under arbitrary callers of subscribe and of the tokens.
NextTokens ==
  \/ \E cb \in Conns : BusSubscribe(cb)
  \/ \E t \in 1..Len(tokens) : TokenInvoke(t)

SpecTokens == Init /\ [][NextTokens]_vars

\* The submit pipeline with an agent that has env.AI: every analysis waits
\* for the AI call, which may come to any of AiOutcomes.  The submissions
\* carry one text that passes validation or one that does not.
AiRequests == {r \in Requests : ~r.malformed /\ r.error \in {E_TypeError, E_Blank}}

NextAI ==
  \/ \E s \in Subs, r \in AiRequests : PostReceive(s, r)
  \/ \E s \in Subs : PostValidate(s)
  \/ \E s \in Subs : PostAnalyzeStart(s)
  \/ \E s \in Subs, outcome \in AiOutcomes : PostAnalyzeResume(s, outcome)

SpecAI == Init /\ [][NextAI]_vars

\* Submissions with two different accepted texts whose analyses wait for the
\* AI, so that the handlers overlap from the analysis to the response.
OverlapRequests == {r \in Requests : ~r.malformed /\ r.error \in {E_TypeError, E_Fatal}}

\* The AI call fails, or answers with every field.
OverlapOutcomes == {AI_Rejects, AI_Complete}

NextOverlap ==
  \/ \E s \in Subs, r \in OverlapRequests : PostReceive(s, r)
  \/ \E s \in Subs : PostValidate(s)
  \/ \E s \in Subs : PostAnalyzeStart(s)
  \/ \E s \in Subs, outcome \in OverlapOutcomes : PostAnalyzeResume(s, outcome)

SpecOverlap == Init /\ [][NextOverlap]_vars

\* The submit pipeline with status queries in between.
NextStatus ==
  \/ \E s \in Subs, r \in Requests : PostReceive(s, r)
  \/ \E s \in Subs : PostValidate(s)
  \/ \E s \in Subs : PostAnalyze(s)
  \/ StatusGET

SpecStatus == Init /\ [][NextStatus]_vars

\* Some caller holding the agent runs agent.executeMethod(methodName, ...).
\* An analysis is given the number of the call as its errorId.
ExecuteMethod(methodName, arg) ==
  /\ calls < MaxCalls
  /\ calls' = calls + 1
  /\ LET out == executeMethod(getErrorAgent(errorAgent), methodName, arg, calls + 1)
     IN /\ errorAgent' = Some(out.state)
        /\ lastResp' = Some([method |-> methodName, threw |-> out.threw, value |-> out.value])
  /\ UNCHANGED <<memory, memoryStore, postVars, streamVars, tokens, frames, busLog, timerFaults,
                 ticks, memHist>>

\* The agent alone, under arbitrary callers of executeMethod.
NextAgent ==
  \E methodName \in MethodNames : \E arg \in MethodArgs(methodName) :
    ExecuteMethod(methodName, arg)

SpecAgent == Init /\ [][NextAgent]_vars

\* What clients do while submissions run: close a stream, clear the memory
\* endpoint's store, ask for the status.
ClientAction ==
  \/ \E c \in Conns : StreamCancel(c)
  \/ MemoryDELETE
  \/ StatusGET

\* The pipeline with a stream connection and those client actions, for one
\* request of each kind: a malformed body, a non-string error field, a blank
\* text, a text that passes validation.  The two
\* timers of a submission (setTimeout 500 ms) fire, so a submission waiting at
\* one of them goes on: weak fairness of its next stage.
LiveRequests ==
  {r \in Requests : r.malformed \/ r.error \in {Number42, E_Blank, E_TypeError}}

NextLive ==
  \/ \E c \in 1..MaxPipelineConns : StreamStart(c)
  \/ \E s \in Subs, r \in LiveRequests : PostReceive(s, r)
  \/ \E s \in Subs : PostValidate(s)
  \/ \E s \in Subs : PostAnalyze(s)
  \/ ClientAction

SpecLive ==
  /\ Init /\ [][NextLive]_vars
  /\ \A s \in Subs : WF_vars(PostValidate(s)) /\ WF_vars(PostAnalyze(s))

\* The events an arbitrary producer publishes in SpecBus.
BusEvents ==
  {Event(1, "_validation", "validation", "processing", Null),
   Event(1, "", "completed", "completed", Null)}

\* Some caller runs realtimeEvents.emit(event); an exception of a callback
\* goes back to that caller.
Publish(event) ==
  /\ Len(busLog) < MaxEmits
  /\ LET out == Emit(subscribers, connStatus, frames, event, Len(busLog) + 1)
     IN /\ frames' = out.frames
        /\ busLog' = Append(busLog, LogEntry(0, event, out, connStatus))
  /\ UNCHANGED <<memory, errorAgent, postVars, endpointVars, tokens, streamVars, timerFaults, ticks,
                 memHist>>

\* The EventBus and the event stream endpoint under an arbitrary producer.
NextBus ==
  \/ \E c \in Conns : StreamStart(c)
  \/ \E c \in Conns : StreamCancel(c)
  \/ \E c \in Conns : KeepAlive(c)
  \/ \E event \in BusEvents : Publish(event)

SpecBus == Init /\ [][NextBus]_vars

\* The pipeline with the memory and status endpoints, no stream connection.
NextMemory ==
  \/ \E s \in Subs, r \in Requests : PostReceive(s, r)
  \/ \E s \in Subs : PostValidate(s)
  \/ \E s \in Subs : PostAnalyze(s)
  \/ MemoryGET
  \/ \E updates \in MemoryUpdates : MemoryPOST(updates)
  \/ MemoryDELETE
  \/ StatusGET

SpecMemory == Init /\ [][NextMemory]_vars

\* ------------------------------------------------------------------ claims

Done(s) == pc[s] = "done"
StatusOf(s) == resp[s][1].status

\* The publications of submission s, in the order they were made.
EventsOf(s) == SelectSeq(busLog, LAMBDA e : e.sub = s)
TypesOf(s) == [i \in 1..Len(EventsOf(s)) |-> EventsOf(s)[i].event.type]

\* The request carries an error text that is non-empty after trimming.
NonEmptyText(r) == ~r.malformed /\ r.error.tag = "string" /\ Trim(r.error.chars) # <<>>

\* The request's error text is missing, empty or whitespace-only.
EmptyText(r) ==
  /\ ~r.malformed
  /\ \/ r.error.tag = "undefined"
     \/ r.error.tag = "string" /\ Trim(r.error.chars) = <<>>

\* C1: every finished submission whose error text is non-empty after trimming
\* has published exactly the four events validation, workflow, memory_update,
\* completed, in this order, each id starting with the submission's eventId.
C1_FourEventsInOrder ==
  \A s \in Subs :
    (Done(s) /\ NonEmptyText(req[s])) =>
      /\ TypesOf(s) = <<"validation", "workflow", "memory_update", "completed">>
      /\ \A i \in 1..Len(EventsOf(s)) : EventsOf(s)[i].event.id[1] = EventIdOf(s)

\* C2: every finished submission whose error text is missing, empty or
\* whitespace-only has published exactly one validation event with status
\* error, no workflow, memory_update or completed event, and was answered 400.
C2_RejectedWithOneErrorEvent ==
  \A s \in Subs :
    (Done(s) /\ EmptyText(req[s])) =>
      /\ Cardinality({i \in 1..Len(EventsOf(s)) :
                        /\ EventsOf(s)[i].event.type = "validation"
                        /\ EventsOf(s)[i].event.status = "error"}) = 1
      /\ \A i \in 1..Len(EventsOf(s)) :
           EventsOf(s)[i].event.type \notin {"workflow", "memory_update", "completed"}
      /\ StatusOf(s) = 400

\* C3: in every emit, every callback registered at publish time was invoked,
\* also when one of them threw.
C3_AllRegisteredInvoked ==
  \A i \in 1..Len(busLog) : busLog[i].invoked = busLog[i].registered

\* Connection c was written the publication number i.
Delivered(c, i) == \E k \in 1..Len(frames[c]) : frames[c][k].seq = i

\* C4: an event published while one connection is closed and another is open
\* is delivered to the open one, and no publication is written to a connection
\* that was closed when it was made.
C4_CloseDoesNotAffectOthers ==
  /\ \A i \in 1..Len(busLog) :
       busLog[i].closed # {} => \A c \in busLog[i].open : Delivered(c, i)
  /\ \A i \in 1..Len(busLog) : \A c \in busLog[i].closed : ~Delivered(c, i)

\* C5: the subscriber set holds only callbacks of open connections, the
\* keep-alive timer of a closed connection is cancelled, and no keep-alive has
\* fired for a closed connection.
C5_CleanupOnClose ==
  /\ \A i \in 1..Len(subscribers) : connStatus[subscribers[i]] = "open"
  /\ \A c \in timers : connStatus[c] = "open"
  /\ timerFaults = {}

\* What POST /api/worker answers to request r when no callback is subscribed
\* at any of its emits.
ZeroSubscriberStatus(r) ==
  LET threw == Emit(<<>>, connStatus, frames, ConnectedMessage, 0).threw
      verdict == ValidateInput(r.error)
  IN IF r.malformed \/ threw \/ verdict = "throw" THEN 500
     ELSE IF verdict = "reject" THEN 400
     ELSE 200

\* C6: the status answered to a submission is the one the same request gets
\* with zero subscribers, whatever connections are open, closed or failing.
C6_ResponseIndependentOfSubscribers ==
  \A s \in Subs : Done(s) => StatusOf(s) = ZeroSubscriberStatus(req[s])

\* C7: the first frame of a connection is the connected frame, it is the only
\* connected frame, and every publication the connection was written was made
\* after its callback subscribed and is the event that was published.
C7_NoReplay ==
  \A c \in Conns :
    /\ connStatus[c] = "idle" => frames[c] = <<>>
    /\ connStatus[c] # "idle" =>
         /\ frames[c] # <<>>
         /\ frames[c][1] = DataFrame(ConnectedMessage, 0)
         /\ \A k \in 2..Len(frames[c]) :
              /\ frames[c][k].body.type # "connected"
              /\ frames[c][k].kind = "data" =>
                   /\ frames[c][k].seq > subscribedAt[c]
                   /\ frames[c][k].seq <= Len(busLog)
                   /\ frames[c][k].body = busLog[frames[c][k].seq].event

\* C7 witness: a connection opened after a publication has been written a
\* later publication.
C7_Witness ==
  \E c \in Conns :
    /\ subscribedAt[c] >= 1
    /\ \E k \in 2..Len(frames[c]) : frames[c][k].kind = "data"

\* Submissions answered 200 so far.
Successes == {s \in Subs : Done(s) /\ StatusOf(s) = 200}

\* C8: after DELETE /api/memory and until the next submission commits (and
\* with no POST /api/memory in between), both snapshots are the zero values:
\* the body of GET /api/memory (memoryStore) and the memory of GET /api/worker
\* (memory).
C8_ClearResetsEverySnapshot ==
  memHist.cleared => (memoryStore = InitMemory /\ memory = InitMemory)

\* C9: with no clear and no POST /api/memory so far, GET /api/memory shows
\* totalErrors equal to the number of successful submissions and returns what
\* GET /api/worker returns as memory.
C9_MemoryEndpointReadsPipelineState ==
  (~memHist.everCleared /\ ~memHist.everPosted) =>
    /\ memoryStore.totalErrors = Cardinality(Successes)
    /\ memoryStore = memory

\* C10: a step changes a store only if it is the Commit step of a submission
\* or the clear operation.
C10_OnlyCommitAndClearWrite ==
  [][(memory' # memory \/ memoryStore' # memoryStore) =>
       ((\E s \in Subs : PostAnalyze(s)) \/ MemoryDELETE)]_vars

\* The submission ended in a failure other than empty input: its body was
\* malformed, its error field made the validation throw, or a publication of
\* one of its events threw.
FailsOtherThanEmpty(s) ==
  /\ Done(s)
  /\ \/ req[s].malformed
     \/ ValidateInput(req[s].error) = "throw"
     \/ \E i \in 1..Len(EventsOf(s)) : EventsOf(s)[i].threw

ErrorEventsOf(s) == {i \in 1..Len(EventsOf(s)) : EventsOf(s)[i].event.status = "error"}

\* C11: every submission that fails for a reason other than empty input is
\* answered 500 and has published exactly one event with status error.
C11_FailureAnswered500WithOneErrorEvent ==
  \A s \in Subs :
    FailsOtherThanEmpty(s) =>
      (StatusOf(s) = 500 /\ Cardinality(ErrorEventsOf(s)) = 1)

\* C12: a step that finishes a submission with a non-2xx response leaves the
\* pipeline's memory as the step found it, also when the failure comes after
\* the commit (while the memory_update or completed event is published).
C12_FailureLeavesMemoryUnchanged ==
  [][\A s \in Subs :
       (pc[s] # "done" /\ pc'[s] = "done" /\ resp'[s][1].status # 200)
         => memory' = memory]_vars

\* C13: the step that finishes a submission with 200 increases totalErrors of
\* the pipeline's memory by exactly 1, whatever other submissions are in
\* flight, and no step decreases totalErrors.
C13_TotalErrorsCountsEverySuccess ==
  [][/\ memory'.totalErrors >= memory.totalErrors
     /\ \A s \in Subs :
          (pc[s] # "done" /\ pc'[s] = "done" /\ resp'[s][1].status = 200)
            => memory'.totalErrors = memory.totalErrors + 1]_vars

\* Submission 2 arrived after submission 1 and committed before it: both are
\* counted.
C13_Witness ==
  /\ Successes = {1, 2}
  /\ memory.totalErrors = 2
  /\ memory.workflows[1].id = EventIdOf(1)

RECURSIVE Reverse(_)
Reverse(s) == IF s = <<>> THEN <<>> ELSE Append(Reverse(Tail(s)), Head(s))

\* C14: workflows holds at most ten records, the most recently committed
\* first: it is the last ten commits in reverse commit order, so the record an
\* eleventh commit evicts is the oldest.
C14_WorkflowsNewestFirstCappedAtTen ==
  /\ Len(memory.workflows) <= WorkflowCap
  /\ memory.workflows = Take(Reverse(memHist.commits), WorkflowCap)

\* Submission 1 made the eleventh commit: ten records are kept, its own first.
C14_Witness ==
  /\ Len(memHist.commits) = WorkflowCap + 1
  /\ Len(memory.workflows) = WorkflowCap
  /\ memory.workflows[1].id = EventIdOf(1)
  /\ \A i \in 1..WorkflowCap : memory.workflows[i].id # memHist.commits[1].id

\* Connection c was subscribed and open at every publication of submission s,
\* and is open now.
StaysConnected(c, s) ==
  /\ connStatus[c] = "open"
  /\ \A i \in 1..Len(busLog) :
       busLog[i].sub = s => (c \in busLog[i].registered /\ c \in busLog[i].open)

\* The events of submission s written to connection c, in the order written.
ReceivedOf(c, s) ==
  LET own == SelectSeq(frames[c], LAMBDA f : f.seq > 0 /\ busLog[f.seq].sub = s)
  IN [k \in 1..Len(own) |-> own[k].body]

\* The events submission s published, in the order published.
PublishedOf(s) == [i \in 1..Len(EventsOf(s)) |-> EventsOf(s)[i].event]

StageRank(type) ==
  CASE type = "validation" -> 1
    [] type = "workflow" -> 2
    [] type = "memory_update" -> 3
    [] type = "completed" -> 4
    [] OTHER -> 0

\* C15: a connection that stays subscribed and open throughout a finished
\* submission has been written every event the submission published, in the
\* order published and never an event of a later stage before one of an
\* earlier stage, whatever the other submissions and connections did meanwhile.
C15_ConnectedSubscriberReceivesAllInOrder ==
  \A s \in Subs : \A c \in Conns :
    (Done(s) /\ StaysConnected(c, s)) =>
      /\ ReceivedOf(c, s) = PublishedOf(s)
      /\ \A k \in 1..(Len(ReceivedOf(c, s)) - 1) :
           StageRank(ReceivedOf(c, s)[k].type) <= StageRank(ReceivedOf(c, s)[k + 1].type)

\* The sum of the counts of a statistics map.
RECURSIVE SumMap(_)
SumMap(m) ==
  IF DOMAIN m = {} THEN 0
  ELSE LET k == CHOOSE x \in DOMAIN m : TRUE
       IN m[k] + SumMap([x \in (DOMAIN m) \ {k} |-> m[x]])

\* C16: in every state a reader of the pipeline's memory can observe, the
\* counts of errorTypes and the counts of severityCount each sum to
\* totalErrors, and workflows has min(totalErrors, 10) records.
C16_CommitIsAtomicForReaders ==
  /\ SumMap(memory.statistics.errorTypes) = memory.totalErrors
  /\ SumMap(memory.statistics.severityCount) = memory.totalErrors
  /\ Len(memory.workflows) = Min({memory.totalErrors, WorkflowCap})

\* Past the cap, with two error types counted, while another submission is
\* between its stages.
C16_Witness ==
  /\ memory.totalErrors = WorkflowCap + 1
  /\ Len(memory.workflows) = WorkflowCap
  /\ Cardinality(DOMAIN memory.statistics.errorTypes) >= 2
  /\ \E s \in Subs : pc[s] = "analyzing"
  /\ \E s \in Subs : s \in Successes

Subscribed(cb) == \E i \in 1..Len(subscribers) : subscribers[i] = cb

\* C17: no invocation of a token after its first changed the subscriber set,
\* whatever subscribe and token calls came in between, and the callback of
\* every subscription whose own token was never invoked is still subscribed.
C17_TokenIdempotentAndExact ==
  \A t \in 1..Len(tokens) :
    /\ ~tokens[t].changedOnRepeat
    /\ tokens[t].invoked = 0 => Subscribed(tokens[t].callback)

ConnectedFramesOf(c) == {k \in 1..Len(frames[c]) : frames[c][k].body.type = "connected"}

\* C18: a connection that was opened has exactly one connected frame, it is
\* its first frame and not a publication (so no bus event was written to the
\* connection before it); a connection not opened yet has none; and no
\* publication on the bus is a connected message.
C18_ConnectedFrameOnlyToItsConnection ==
  /\ \A i \in 1..Len(busLog) : busLog[i].event.type # "connected"
  /\ \A c \in Conns :
       /\ ConnectedFramesOf(c) = (IF connStatus[c] = "idle" THEN {} ELSE {1})
       /\ \A k \in ConnectedFramesOf(c) : frames[c][k].seq = 0

\* The second connection was opened while the first was open and after a
\* publication the first was written: the first still has one connected frame.
C18_Witness ==
  /\ connStatus[2] # "idle"
  /\ subscribedAt[2] >= 1
  /\ Delivered(1, 1)
  /\ Len(frames[1]) >= 2
  /\ ConnectedFramesOf(1) = {1}
  /\ ConnectedFramesOf(2) = {1}

\* The publications of submission s in a log.
EventsIn(log, s) == SelectSeq(log, LAMBDA e : e.sub = s)

\* C19: the steps of a submission up to its 400 response leave the pipeline's
\* memory and the agent (absent, or its totalAnalyzed, recentErrors,
\* errorPatterns, agentStatus) as they found them, and a submission answered
\* 400 takes no further step: its response stays and it publishes nothing more.
C19_RejectionChangesNoState ==
  [][\A s \in Subs :
       /\ (\/ pc[s] = "idle" /\ pc'[s] # "idle"
           \/ pc[s] = "validating" /\ pc'[s] = "done" /\ resp'[s][1].status = 400)
            => (memory' = memory /\ errorAgent' = errorAgent)
       /\ (pc[s] = "done" /\ resp[s][1].status = 400)
            => /\ pc'[s] = "done"
               /\ resp'[s] = resp[s]
               /\ EventsIn(busLog', s) = EventsIn(busLog, s)]_vars

\* Submission 2 was rejected after submission 1 had been analysed and
\* committed: there was state to change.
C19_Witness ==
  /\ Done(2) /\ StatusOf(2) = 400
  /\ Successes = {1}
  /\ memory.totalErrors = 1
  /\ errorAgent # Null
  /\ errorAgent[1].totalAnalyzed = 1
  /\ TypesOf(2) = <<"validation", "validation">>

\* The AI call did not yield an analysis: it was rejected, or its text is not
\* JSON, or it is the JSON null.
AiFailed(outcome) == outcome.run = "throws" \/ outcome.parse \in {"throws", "null"}

\* An analysis with every field set and the category of the rule-based
\* classification.
AnalysisComplete(analysis, error) ==
  /\ DOMAIN analysis =
       {"type", "category", "rootCause", "suggestions", "relatedPatterns", "confidence"}
  /\ analysis.category = categorizeError(error)
  /\ analysis.type # <<>>
  /\ analysis.rootCause # <<>>
  /\ analysis.confidence > 0

\* C20: whatever the AI call of a submission came to, the submission was
\* answered 200 after its four events and its commit, and the agent holds its
\* record with a complete analysis: the rule-based one when the AI call failed,
\* else the AI's type where it gave one and defaults for what it left out.
\* When no analysis is waiting for the AI the agent's agentStatus is idle.
C20_AiFailureNeverAbortsARun ==
  /\ \A i \in 1..Len(memHist.ai) :
       LET s == memHist.ai[i].sub
           outcome == memHist.ai[i].outcome
           error == req[s].error.chars
           recent == errorAgent[1].recentErrors
       IN /\ Done(s) /\ StatusOf(s) = 200
          /\ TypesOf(s) = <<"validation", "workflow", "memory_update", "completed">>
          /\ \E k \in 1..Len(memHist.commits) : memHist.commits[k].id = EventIdOf(s)
          /\ \E j \in 1..Len(recent) :
               /\ recent[j].id = EventIdOf(s)
               /\ AnalysisComplete(recent[j].analysis, error)
               /\ AiFailed(outcome) =>
                    recent[j].analysis =
                      performRuleBasedAnalysis(error, categorizeError(error),
                                               detectSeverity(error))
               /\ (/\ ~AiFailed(outcome)
                   /\ "type" \in DOMAIN outcome.fields
                   /\ outcome.fields.type # <<>>)
                    => recent[j].analysis.type = outcome.fields.type
  /\ (errorAgent # Null /\ \A s \in Subs : pc[s] # "awaitingAI")
       => errorAgent[1].agentStatus = "idle"

\* One AI call was rejected and another answered the JSON null: both
\* submissions were answered 200 and the agent is idle.
C20_Witness ==
  /\ Len(memHist.ai) = 2
  /\ memHist.ai[1].outcome = AI_Rejects
  /\ memHist.ai[2].outcome = AI_Null
  /\ Successes = {1, 2}
  /\ memory.totalErrors = 2
  /\ errorAgent[1].totalAnalyzed = 2
  /\ errorAgent[1].agentStatus = "idle"

\* C21: a status query publishes nothing, writes neither memory store, leaves
\* the agent's state as it was (the state of an agent not built yet is the
\* one its constructor sets) and touches no submission: its stage, request and
\* response stay, so what the submissions go on to produce is the same.
C21_StatusQueryHasNoSideEffects ==
  [][StatusGET =>
       /\ busLog' = busLog /\ frames' = frames
       /\ memory' = memory /\ memoryStore' = memoryStore
       /\ getErrorAgent(errorAgent') = getErrorAgent(errorAgent)
       /\ pc' = pc /\ req' = req /\ resp' = resp]_vars

\* A status query ran between the commits of two submissions, both answered
\* 200: it reported one error and the memory now counts two.
C21_Witness ==
  /\ lastResp # Null
  /\ lastResp[1].endpoint = "GET /api/worker"
  /\ lastResp[1].body[1].memory.totalErrors = 1
  /\ lastResp[1].body[1].agent.state.totalAnalyzed = 1
  /\ memory.totalErrors = 2
  /\ Successes = {1, 2}

\* The analyses the agent holds.
AnalysesHeld ==
  IF errorAgent = Null THEN {}
  ELSE {errorAgent[1].recentErrors[i].analysis : i \in 1..Len(errorAgent[1].recentErrors)}

\* C22: every analysis result the agent produced carries between 3 and 5
\* suggestions, whatever the category of the error.
C22_ThreeToFiveSuggestions ==
  \A analysis \in AnalysesHeld :
    Len(analysis.suggestions) >= 3 /\ Len(analysis.suggestions) <= SuggestionCap

\* The lower-cased text contains the keyword.
Has(text, keyword) == Includes(ToLowerCase(text), keyword)

\* The result of the first rule one of whose keywords the text contains.
FirstMatch(rules, text, default) ==
  LET hits == {i \in 1..Len(rules) : \E k \in rules[i][1] : Has(text, k)}
  IN IF hits = {} THEN default ELSE rules[Min(hits)][2]

SeverityRules ==
  << <<{K_critical, K_fatal}, "critical">>,
     <<{K_error, K_exception}, "high">>,
     <<{K_warning}, "medium">> >>

CategoryRules ==
  << <<{K_syntax}, T_Syntax>>, <<{K_type}, T_Type>>, <<{K_reference}, T_Reference>>,
     <<{K_network}, T_Network>>, <<{K_timeout}, T_Timeout>>,
     <<{K_auth, K_permission}, T_Security>>, <<{K_database, K_sql}, T_Database>> >>

\* C23: without an AI backend every record of the agent has the severity of
\* the first severity rule whose keyword its lower-cased text contains (else
\* low), the category of the first category rule (else General), and the type
\* category followed by " Error"; the documentation's TypeError example is
\* "Type Error" with severity high.
C23_KeywordClassification ==
  errorAgent # Null =>
    \A i \in 1..Len(errorAgent[1].recentErrors) :
      LET record == errorAgent[1].recentErrors[i] IN
      /\ record.severity = FirstMatch(SeverityRules, record.error, "low")
      /\ record.analysis.category = FirstMatch(CategoryRules, record.error, T_General)
      /\ record.analysis.type = record.analysis.category \o T_ErrorSuffix
      /\ record.error = X_Example =>
           /\ record.analysis.type = <<"T","y","p","e"," ","E","r","r","o","r">>
           /\ record.severity = "high"

\* The agent classified the documentation's example and a text with both
\* "FATAL" and "error".
C23_Witness ==
  /\ errorAgent # Null
  /\ Len(errorAgent[1].recentErrors) = 2
  /\ errorAgent[1].recentErrors[1].error = X_Database
  /\ errorAgent[1].recentErrors[1].severity = "critical"
  /\ errorAgent[1].recentErrors[2].error = X_Example
  /\ errorAgent[1].recentErrors[2].analysis.category = T_Type

\* C24: a call of executeMethod with a name that is not decorated with
\* @callable() throws and leaves the agent's state as it was.
C24_OnlyCallableMethodsExecute ==
  [][\A methodName \in MethodNames \ CallableMethods :
       \A arg \in MethodArgs(methodName) :
         ExecuteMethod(methodName, arg) =>
           /\ lastResp'[1].threw
           /\ getErrorAgent(errorAgent') = getErrorAgent(errorAgent)]_vars

\* Submissions received and not answered yet.
InFlight == {s \in Subs : pc[s] \in {"validating", "analyzing", "awaitingAI"}}

\* C25: the agent's totalAnalyzed is never below the pipeline memory's
\* totalErrors, and the two are equal whenever no submission is in flight.
C25_CountersDoNotDrift ==
  LET totalAnalyzed == getErrorAgent(errorAgent).totalAnalyzed
  IN /\ totalAnalyzed >= memory.totalErrors
     /\ InFlight = {} => totalAnalyzed = memory.totalErrors

\* One submission was answered 200 and one 400, none is in flight.
C25_Witness ==
  /\ InFlight = {}
  /\ \A s \in Subs : Done(s)
  /\ Cardinality(Successes) = 1
  /\ \E s \in Subs : StatusOf(s) = 400
  /\ errorAgent # Null
  /\ errorAgent[1].totalAnalyzed = 1
  /\ memory.totalErrors = 1

\* C26: while an analyzeError call is waiting for the AI, the agent's
\* agentStatus is analyzing.
C26_AnalyzingWhileAnyInFlight ==
  (\E s \in Subs : pc[s] = "awaitingAI") => errorAgent[1].agentStatus = "analyzing"

Commits(s) == pc[s] # "done" /\ pc'[s] = "done" /\ memory' # memory

\* C28: at every Commit of the pipeline, the memory after it equals, in
\* totalErrors, lastProcessed, workflows, errorTypes and severityCount, the
\* store addWorkflow(updateLastProcessed(incrementErrors(memory), error), record)
\* returns for the memory before it, and each of the three operations leaves
\* the store passed to it as it was.
C28_CommitEqualsPureOperations ==
  [][\A s \in Subs : Commits(s) =>
       LET error == req[s].error.chars
           record == memHist'.commits[Len(memHist'.commits)]
           incremented == incrementErrors(memory)
           updated == updateLastProcessed(incremented.result, error)
           added == addWorkflow(updated.result, record)
       IN /\ record.id = EventIdOf(s)
          /\ memory'.totalErrors = added.result.totalErrors
          /\ memory'.lastProcessed = added.result.lastProcessed
          /\ memory'.workflows = added.result.workflows
          /\ memory'.statistics.errorTypes = added.result.statistics.errorTypes
          /\ memory'.statistics.severityCount = added.result.statistics.severityCount
          /\ incremented.store = memory
          /\ updated.store = incremented.result
          /\ added.store = updated.result]_vars

\* Both submissions committed on top of PriorCommits earlier ones: the last
\* Commit evicted a record and incremented an existing count of each map.
C28_Witness ==
  /\ Len(memHist.commits) = PriorCommits + 2
  /\ memory.totalErrors = PriorCommits + 2
  /\ Len(memory.workflows) = WorkflowCap
  /\ \A s \in Subs : StatusOf(s) = 200
  /\ \E t \in DOMAIN memory.statistics.errorTypes : memory.statistics.errorTypes[t] > 1

\* The submission that made the i-th commit, and the position of the commit of
\* submission s.
CommitterOf(i) == CHOOSE s \in Subs : EventIdOf(s) = memHist.commits[i].id
CommitIndex(s) == CHOOSE i \in 1..Len(memHist.commits) : memHist.commits[i].id = EventIdOf(s)

\* The store after the first i commits, by the operations of memory-store.ts.
RECURSIVE MemoryAfter(_)
MemoryAfter(i) ==
  IF i = 0 THEN InitMemory
  ELSE addWorkflow(
         updateLastProcessed(incrementErrors(MemoryAfter(i - 1)).result,
                             req[CommitterOf(i)].error.chars).result,
         memHist.commits[i]).result

MemoryUpdatesOf(s) == SelectSeq(EventsOf(s), LAMBDA e : e.event.type = "memory_update")

\* C29: once there is a commit, lastProcessed is the first 100 characters of
\* the text of the submission whose record heads workflows; and the memory in
\* the memory_update event and in the 200 response of a submission is the
\* memory right after that submission's own Commit, whatever the other
\* submission did before or after.
C29_SnapshotsAreOfOwnCommit ==
  /\ memory = MemoryAfter(Len(memHist.commits))
  /\ memHist.commits # <<>> =>
       \E s \in Subs :
         /\ memory.workflows[1].id = EventIdOf(s)
         /\ memory.lastProcessed = Some(Take(req[s].error.chars, LastProcessedLen))
  /\ \A s \in Successes :
       resp[s][1].memory = Some(MemoryAfter(CommitIndex(s)))
  /\ \A s \in Subs : \A i \in 1..Len(MemoryUpdatesOf(s)) :
       MemoryUpdatesOf(s)[i].event.data = Some([memory |-> MemoryAfter(CommitIndex(s))])

\* Two submissions with different texts overlapped and the later one committed
\* first: its response shows one error and its own text, the memory now two
\* and the text of the other.
C29_Witness ==
  /\ Successes = {1, 2}
  /\ req[1].error # req[2].error
  /\ CommitIndex(2) = 1
  /\ resp[2][1].memory[1].totalErrors = 1
  /\ resp[2][1].memory[1].lastProcessed = Some(Take(req[2].error.chars, LastProcessedLen))
  /\ memory.lastProcessed = Some(Take(req[1].error.chars, LastProcessedLen))
  /\ Len(MemoryUpdatesOf(2)) = 1

\* C30: the agent's recentErrors holds at most 20 records, those of the most
\* recent analyses with the newest first; the counts of errorPatterns sum to
\* totalAnalyzed; and the severityDistribution of getStatistics sums to
\* recentErrorCount, which is min(totalAnalyzed, 20).
C30_AgentStateInvariant ==
  LET state == getErrorAgent(errorAgent)
      stats == getStatistics(state)
      analysed == [i \in 1..Len(memHist.commits) |-> memHist.commits[i].id]
  IN /\ Len(state.recentErrors) <= RecentErrorsCap
     /\ [i \in 1..Len(state.recentErrors) |-> state.recentErrors[i].id]
          = Take(Reverse(analysed), RecentErrorsCap)
     /\ SumMap(state.errorPatterns) = state.totalAnalyzed
     /\ stats.recentErrorCount = Min({state.totalAnalyzed, RecentErrorsCap})
     /\ SumMap(stats.severityDistribution) = stats.recentErrorCount

\* The agent has analysed two errors more than it retains: the distribution
\* counts 20 records of two severities, the newest being submission 2's.
C30_Witness ==
  /\ errorAgent # Null
  /\ errorAgent[1].totalAnalyzed = RecentErrorsCap + 2
  /\ Len(errorAgent[1].recentErrors) = RecentErrorsCap
  /\ errorAgent[1].recentErrors[1].id = EventIdOf(2)
  /\ Cardinality(DOMAIN getStatistics(errorAgent[1]).severityDistribution) = 2
  /\ SumMap(getStatistics(errorAgent[1]).severityDistribution) < errorAgent[1].totalAnalyzed

====
